---- MODULE Spec2Model ----
(***************************************************************************)
(* Model of StationGraph (src/src/station_graph.hpp): the static adjacency *)
(* views, the time-expanded departure graph, the two Floyd-Warshall        *)
(* next-hop tables and the station-level queries.                          *)
(*                                                                         *)
(* Table cells are decimal strings in the program (vector<vector<string>>);*)
(* a string is modelled as the sequence of its digits, so that stoi and    *)
(* std::string's == and < are modelled by what they do.                    *)
(* Vectors are sequences; the program's 0-based index n is element n + 1.  *)
(***************************************************************************)
EXTENDS Integers, Sequences, FiniteSets, TLC

VARIABLES tripData, stationData, stationCount, pc,
          stationsGraphList, stationArrivalsGraphList, departureGraphList,
          shortestRouteWithLayoverSequenceTable,
          shortestRouteWithoutLayoverSequenceTable,
          call, ret

vars == <<tripData, stationData, stationCount, pc,
          stationsGraphList, stationArrivalsGraphList, departureGraphList,
          shortestRouteWithLayoverSequenceTable,
          shortestRouteWithoutLayoverSequenceTable,
          call, ret>>

(***************************************************************************)
(* Bounds of the model.                                                    *)
(***************************************************************************)
\* Largest number of trip records in the input table.
MaxTrips == 2
\* Number of stations (rows of the station table, IDs 1..NumStations).
NumStations == 3

\* Clock-time strings a record may carry, written without leading zeros.
TimeStrs == { <<8,0,0>>, <<9,0,0>>, <<9,2,0>>, <<1,0,0,0>>, <<1,1,0,0>> }

\* Utility::INF, the "no edge" sentinel (larger than any achievable cost).
INF == 1000000

(***************************************************************************)
(* Strings.                                                                *)
(***************************************************************************)
RECURSIVE Stoi(_)
\* std::stoi on a string of decimal digits.
Stoi(s) == IF s = <<>> THEN 0 ELSE 10 * Stoi(SubSeq(s, 1, Len(s) - 1)) + s[Len(s)]

RECURSIVE StrLess(_, _)
\* std::string operator< : lexicographic comparison, character by character.
StrLess(s, t) ==
    IF t = <<>> THEN FALSE
    ELSE IF s = <<>> THEN TRUE
    ELSE IF s[1] # t[1] THEN s[1] < t[1]
    ELSE StrLess(Tail(s), Tail(t))

\* The decimal string of a station ID 1..9.
IdStr(n) == <<n>>

\* vector[index] with the program's 0-based index.
At(vec, index) == vec[index + 1]

\* tripDataTable[i][c]
Cell(table, i, c) == table[i + 1][c + 1]

(***************************************************************************)
(* Input tables.                                                           *)
(***************************************************************************)
\* A trip record [origin, destination, departure, arrival].
TripRecords ==
    { <<IdStr(o), IdStr(d), dep, arr>> :
        o \in 1..NumStations, d \in 1..NumStations, dep \in TimeStrs, arr \in TimeStrs }

\* Records of a timetable: a ride between two different stations that arrives
\* after it departs.
WellFormedRecords ==
    { r \in TripRecords : r[1] # r[2] /\ Stoi(r[3]) < Stoi(r[4]) }

RECURSIVE TablesOfLen(_)
TablesOfLen(n) ==
    IF n = 0 THEN { <<>> }
    ELSE { Append(t, r) : t \in TablesOfLen(n - 1), r \in WellFormedRecords }

TripTables == UNION { TablesOfLen(n) : n \in 0..MaxTrips }

\* The station table: one row per station, IDs 1..NumStations in row order.
StationTable == [ i \in 1..NumStations |-> << IdStr(i) >> ]

(***************************************************************************)
(* Records of the program's types.                                         *)
(***************************************************************************)
\* Trip{destinationID, departureTime, arrivalTime}
Trip(destinationID, departureTime, arrivalTime) ==
    [ destinationID |-> destinationID, departureTime |-> departureTime,
      arrivalTime |-> arrivalTime ]

\* Station(ID, tripArray)
Station(ID, tripArray) == [ stationID |-> ID, trips |-> tripArray ]

StationIsValid(station) == station.stationID > 0

\* TripPlusLayover{destinationKey, rideTime, layover, tripWeight}
TripPlusLayover(destinationKey, ride, layover, weight) ==
    [ destinationKey |-> destinationKey, rideTimeToDestinationMins |-> ride,
      layoverAtDestinationMins |-> layover, tripWeight |-> weight ]

\* Departure(tripArray, ID, key, departure)
Departure(tripArray, ID, key, departure) ==
    [ validTrips |-> tripArray, stationID |-> ID, lookUpKey |-> key,
      departureTime |-> departure ]

IsFinalDestination(departure) == Len(departure.validTrips) = 0

GetTripCount(departure) == Len(departure.validTrips)

RECURSIVE FindTripIn(_, _)
FindTripIn(trips, destinationKey) ==
    IF trips = <<>> THEN TripPlusLayover(-1, 0, 0, 0)
    ELSE IF Head(trips).destinationKey = destinationKey THEN Head(trips)
    ELSE FindTripIn(Tail(trips), destinationKey)

\* Departure::FindTripByDestinationKey: the first edge to the key, else {-1}.
FindTripByDestinationKey(departure, destinationKey) ==
    FindTripIn(departure.validTrips, destinationKey)

\* Route{departingStation, tripList}
Route(departingStation, tripList) ==
    [ departingStation |-> departingStation, tripList |-> tripList ]

\* The sentinel {{{}, -1, -1, -1}, {}} returned when no route is found.
InvalidRoute == Route(Departure(<<>>, -1, -1, -1), <<>>)

\* Route::RouteIsValid (route.hpp, of which the repository's sources here hold
\* only the uses).  The specification's data model: a Route is valid iff the
\* departing vertex's station ID is non-negative and every segment's target
\* key is non-negative; its error handling: a query with no feasible route
\* returns the invalid Route, so a reconstruction that took no segment is not
\* a valid Route either.
RouteIsValid(route) ==
    /\ route.departingStation.stationID >= 0
    /\ Len(route.tripList) > 0
    /\ \A n \in 1..Len(route.tripList) : route.tripList[n].destinationKey >= 0

(***************************************************************************)
(* Static adjacency views.                                                 *)
(***************************************************************************)
RECURSIVE StationTripLoop(_, _, _)
\* The loop filling tempTripTable of build_stations_graph, from record i on.
StationTripLoop(tempTripTable, tripDataTable, i) ==
    IF i >= Len(tripDataTable) THEN tempTripTable
    ELSE LET startID == Stoi(Cell(tripDataTable, i, 0)) - 1
             destinationID == Stoi(Cell(tripDataTable, i, 1))
             arrivalTime == Stoi(Cell(tripDataTable, i, 3))
             departureTime == Stoi(Cell(tripDataTable, i, 2))
         IN StationTripLoop(
                [ tempTripTable EXCEPT ![startID + 1] =
                    Append(@, Trip(destinationID, departureTime, arrivalTime)) ],
                tripDataTable, i + 1)

build_stations_graph(tripDataTable, count) ==
    LET tempTripTable == StationTripLoop([ n \in 1..count |-> <<>> ], tripDataTable, 0)
    IN [ n \in 1..count |-> Station(n, tempTripTable[n]) ]

RECURSIVE ArrivalTripLoop(_, _, _)
\* The loop filling tempTripTable of build_station_arrivals_graph.
ArrivalTripLoop(tempTripTable, tripDataTable, i) ==
    IF i >= Len(tripDataTable) THEN tempTripTable
    ELSE LET startID == Stoi(Cell(tripDataTable, i, 1)) - 1
             destinationID == Stoi(Cell(tripDataTable, i, 0))
             arrivalTime == Stoi(Cell(tripDataTable, i, 2))
             departureTime == Stoi(Cell(tripDataTable, i, 3))
         IN ArrivalTripLoop(
                [ tempTripTable EXCEPT ![startID + 1] =
                    Append(@, Trip(destinationID, departureTime, arrivalTime)) ],
                tripDataTable, i + 1)

build_station_arrivals_graph(tripDataTable, count) ==
    LET tempTripTable == ArrivalTripLoop([ n \in 1..count |-> <<>> ], tripDataTable, 0)
    IN [ n \in 1..count |-> Station(n, tempTripTable[n]) ]

(***************************************************************************)
(* Time-expanded graph builder.                                            *)
(***************************************************************************)
station_records_match(Key1, Key2, tripDataTable) ==
    /\ Stoi(Cell(tripDataTable, Key1, 0)) = Stoi(Cell(tripDataTable, Key2, 0))
    /\ Stoi(Cell(tripDataTable, Key1, 1)) = Stoi(Cell(tripDataTable, Key2, 1))
    /\ Stoi(Cell(tripDataTable, Key1, 2)) = Stoi(Cell(tripDataTable, Key2, 2))
    /\ Stoi(Cell(tripDataTable, Key1, 3)) = Stoi(Cell(tripDataTable, Key2, 3))

\* The keyIndx loops leaving at the first match.
FirstMatchingKey(i, tripDataTable) ==
    CHOOSE keyIndx \in 0..(Len(tripDataTable) - 1) :
        /\ station_records_match(keyIndx, i, tripDataTable)
        /\ \A other \in 0..(Len(tripDataTable) - 1) :
              station_records_match(other, i, tripDataTable) => keyIndx <= other

\* The keyIndx loops keep the last index whose record matches record i.
LastMatchingKey(i, tripDataTable) ==
    CHOOSE keyIndx \in 0..(Len(tripDataTable) - 1) :
        /\ station_records_match(keyIndx, i, tripDataTable)
        /\ \A other \in 0..(Len(tripDataTable) - 1) :
              station_records_match(other, i, tripDataTable) => other <= keyIndx

\* The k loops: every entry whose record matches record i gets the departure
\* time and station of record i and the edge pushed at the back.
InsertEdge(tempTripTable, i, edge, tripDataTable) ==
    [ n \in 1..Len(tempTripTable) |->
        IF station_records_match(n - 1, i, tripDataTable)
        THEN [ departureTime |-> Stoi(Cell(tripDataTable, i, 2)),
               stationID |-> Stoi(Cell(tripDataTable, i, 0)),
               trips |-> Append(tempTripTable[n].trips, edge) ]
        ELSE tempTripTable[n] ]

\* The feasibility test of a connection from record i to record j: the
\* program compares the table's strings.
ConnectionFeasible(i, j, tripDataTable) ==
    /\ j # i
    /\ Cell(tripDataTable, i, 1) = Cell(tripDataTable, j, 0)
    /\ StrLess(Cell(tripDataTable, i, 3), Cell(tripDataTable, j, 2))

\* The ride edge of record i, to the sink of its destination station.
RideEdge(i, tripDataTable) ==
    LET rideTimeToDestination ==
            Stoi(Cell(tripDataTable, i, 3)) - Stoi(Cell(tripDataTable, i, 2))
        layoverAtDestination == 0
        totalTripTime == rideTimeToDestination + layoverAtDestination
        destinationKey ==
            Stoi(Cell(tripDataTable, LastMatchingKey(i, tripDataTable), 1))
                + (Len(tripDataTable) - 1)
    IN TripPlusLayover(destinationKey, rideTimeToDestination,
                       layoverAtDestination, totalTripTime)

\* The connection edge from record i to record j.
ConnectionEdge(i, j, tripDataTable) ==
    LET rideTimeToDestination ==
            Stoi(Cell(tripDataTable, i, 3)) - Stoi(Cell(tripDataTable, i, 2))
        layoverAtDestination ==
            Stoi(Cell(tripDataTable, j, 2)) - Stoi(Cell(tripDataTable, i, 3))
        totalTripTime == rideTimeToDestination + layoverAtDestination
        destinationKey == LastMatchingKey(j, tripDataTable)
    IN TripPlusLayover(destinationKey, rideTimeToDestination,
                       layoverAtDestination, totalTripTime)

RECURSIVE ConnectionLoop(_, _, _, _)
\* The j loop of record i, from j on.
ConnectionLoop(tempTripTable, i, j, tripDataTable) ==
    IF j >= Len(tripDataTable) THEN tempTripTable
    ELSE IF ConnectionFeasible(i, j, tripDataTable)
    THEN ConnectionLoop(
             InsertEdge(tempTripTable, i, ConnectionEdge(i, j, tripDataTable),
                        tripDataTable),
             i, j + 1, tripDataTable)
    ELSE ConnectionLoop(tempTripTable, i, j + 1, tripDataTable)

RECURSIVE RecordLoop(_, _, _)
\* The i loop, from record i on: the ride edge, then the connection edges.
RecordLoop(tempTripTable, i, tripDataTable) ==
    IF i >= Len(tripDataTable) THEN tempTripTable
    ELSE RecordLoop(
             ConnectionLoop(
                 InsertEdge(tempTripTable, i, RideEdge(i, tripDataTable), tripDataTable),
                 i, 0, tripDataTable),
             i + 1, tripDataTable)

\* build_departures_graph with the sinks keyed by their row, without the
\* offset tempTripTable.size().
build_departures_graph_row_keys(tripDataTable, stationDataTable) ==
    LET size == Len(tripDataTable)
        tempTripTable ==
            RecordLoop([ n \in 1..size |-> [ departureTime |-> 0, stationID |-> 0,
                                             trips |-> <<>> ] ],
                       0, tripDataTable)
    IN [ n \in 1..(size + Len(stationDataTable)) |->
           IF n <= size
           THEN Departure(tempTripTable[n].trips, tempTripTable[n].stationID,
                          n - 1, tempTripTable[n].departureTime)
           ELSE Departure(<<>>, Stoi(Cell(stationDataTable, n - 1 - size, 0)),
                          n - 1 - size, 0) ]

build_departures_graph(tripDataTable, stationDataTable) ==
    LET size == Len(tripDataTable)
        tempTripTable ==
            RecordLoop([ n \in 1..size |-> [ departureTime |-> 0, stationID |-> 0,
                                             trips |-> <<>> ] ],
                       0, tripDataTable)
    IN [ n \in 1..(size + Len(stationDataTable)) |->
           IF n <= size
           THEN Departure(tempTripTable[n].trips, tempTripTable[n].stationID,
                          n - 1, tempTripTable[n].departureTime)
           ELSE Departure(<<>>, Stoi(Cell(stationDataTable, n - 1 - size, 0)),
                          (n - 1 - size) + size, 0) ]

(***************************************************************************)
(* All-pairs shortest paths.                                               *)
(***************************************************************************)
\* A size x size matrix filled with INF, indexed from 0.
InfMatrix(size) == [ i \in 0..(size - 1) |-> [ j \in 0..(size - 1) |-> INF ] ]

\* The weight of an edge in the selected mode.
EdgeWeight(trip, includeLayovers) ==
    IF includeLayovers THEN trip.tripWeight ELSE trip.rideTimeToDestinationMins

RECURSIVE SeedTrips(_, _, _, _)
\* The loop over the edges of one vertex, from edge j on.
SeedTrips(tables, currentDeparture, j, includeLayovers) ==
    IF j >= GetTripCount(currentDeparture) THEN tables
    ELSE LET startID == currentDeparture.lookUpKey
             tripWeight == EdgeWeight(At(currentDeparture.validTrips, j), includeLayovers)
             destinationID == At(currentDeparture.validTrips, j).destinationKey
         IN SeedTrips(
                [ distance |-> [ tables.distance EXCEPT ![startID][destinationID] = tripWeight ],
                  shortestRouteTable |->
                      [ tables.shortestRouteTable EXCEPT ![startID][destinationID] = destinationID ] ],
                currentDeparture, j + 1, includeLayovers)

RECURSIVE SeedLoop(_, _, _, _)
\* The loop that copies the adjacency list into the two matrices.
SeedLoop(tables, graph, i, includeLayovers) ==
    IF i >= Len(graph) THEN tables
    ELSE SeedLoop(SeedTrips(tables, At(graph, i), 0, includeLayovers),
                  graph, i + 1, includeLayovers)

\* The test of the triple loop's if, for the indices k, i, j.
Improves(distance, k, i, j) ==
    /\ distance[i][k] # INF
    /\ distance[k][j] # INF
    /\ distance[i][k] + distance[k][j] < distance[i][j]

\* Relax with the hop taken from row k, as when the table is read as a
\* predecessor table.
RelaxNextFromK(tables, k, i, j) ==
    [ distance |->
          [ tables.distance EXCEPT ![i][j] = tables.distance[i][k] + tables.distance[k][j] ],
      shortestRouteTable |->
          [ tables.shortestRouteTable EXCEPT ![i][j] = tables.shortestRouteTable[k][j] ] ]

\* The body of the if: the shorter distance, and the first hop towards k as the
\* first hop towards j.
Relax(tables, k, i, j) ==
    [ distance |->
          [ tables.distance EXCEPT ![i][j] = tables.distance[i][k] + tables.distance[k][j] ],
      shortestRouteTable |->
          [ tables.shortestRouteTable EXCEPT ![i][j] = tables.shortestRouteTable[i][k] ] ]

\* The number of rows of the matrices: departureGraphList->size().
Size(tables) == Cardinality(DOMAIN tables.distance)

RECURSIVE JLoop(_, _, _, _)
\* The innermost loop, from j on.
JLoop(tables, k, i, j) ==
    IF j >= Size(tables) THEN tables
    ELSE IF Improves(tables.distance, k, i, j)
    THEN JLoop(Relax(tables, k, i, j), k, i, j + 1)
    ELSE JLoop(tables, k, i, j + 1)

RECURSIVE ILoop(_, _, _)
\* The middle loop, from i on.
ILoop(tables, k, i) ==
    IF i >= Size(tables) THEN tables
    ELSE ILoop(JLoop(tables, k, i, 0), k, i + 1)

RECURSIVE KLoop(_, _)
\* The outer loop over the intermediate vertex, from k on.
KLoop(tables, k) ==
    IF k >= Size(tables) THEN tables
    ELSE KLoop(ILoop(tables, k, 0), k + 1)

\* floyd_warshal_shortest_paths: the local distance matrix and the next-hop
\* table the object keeps.
FloydWarshal(graph, includeLayovers) ==
    LET size == Len(graph)
    IN KLoop(
           SeedLoop([ distance |-> InfMatrix(size), shortestRouteTable |-> InfMatrix(size) ],
                    graph, 0, includeLayovers),
           0)

floyd_warshal_shortest_paths(graph, includeLayovers) ==
    FloydWarshal(graph, includeLayovers).shortestRouteTable

(***************************************************************************)
(* Itinerary reconstruction and the station-level queries.                 *)
(*                                                                         *)
(* A call either returns a value or never returns: the while loop of       *)
(* get_route has no exit when the next-hop chain comes back to a vertex it *)
(* already left.  The chain is a function of the current vertex, so a walk *)
(* of more than |V| iterations repeats a vertex and runs forever.          *)
(***************************************************************************)
Returned(value) == [ returns |-> TRUE, value |-> value ]

NeverReturns == [ returns |-> FALSE, value |-> "none" ]

RECURSIVE RouteLoop(_, _, _, _, _, _)
\* The while loop of get_route; fuel is the number of iterations left before
\* the walk is known to repeat a vertex.  Yields the shortPath built.
RouteLoop(graph, routeLookUpTable, nextStopID, destinationKey, shortPath, fuel) ==
    IF fuel = 0 THEN NeverReturns
    ELSE LET currentNode == At(graph, nextStopID)
             next == routeLookUpTable[nextStopID][destinationKey]
         IN IF IsFinalDestination(currentNode) \/ next = INF
            THEN Returned(IF next # INF
                          THEN Append(shortPath, FindTripByDestinationKey(currentNode, next))
                          ELSE shortPath)
            ELSE RouteLoop(graph, routeLookUpTable, next, destinationKey,
                           Append(shortPath, FindTripByDestinationKey(currentNode, next)),
                           fuel - 1)

get_route(graph, departureKey, destinationKey, routeLookUpTable) ==
    LET walk == RouteLoop(graph, routeLookUpTable, departureKey, destinationKey,
                          <<>>, Len(graph) + 1)
    IN IF ~walk.returns THEN NeverReturns
       ELSE LET finalRoute == Route(At(graph, departureKey), walk.value)
            IN IF RouteIsValid(finalRoute) THEN Returned(finalRoute)
               ELSE Returned(InvalidRoute)

\* StationPairs with the station test joined by || instead of &&.
StationPairsEitherStation(graph, departureID, destinationID) ==
    LET size == Len(graph)
        all == [ n \in 1..(size * size) |-> << (n - 1) \div size, (n - 1) % size >> ]
        Passes(pair) == \/ At(graph, pair[1]).stationID = departureID
                        \/ At(graph, pair[2]).stationID = destinationID
    IN SelectSeq(all, Passes)

\* The (j, k) pairs of the two nested loops, in the order the loops visit them,
\* that pass the station test.
StationPairs(graph, departureID, destinationID) ==
    LET size == Len(graph)
        all == [ n \in 1..(size * size) |-> << (n - 1) \div size, (n - 1) % size >> ]
        Passes(pair) == /\ At(graph, pair[1]).stationID = departureID
                        /\ At(graph, pair[2]).stationID = destinationID
    IN SelectSeq(all, Passes)

\* The weight summed over a route's segments in the selected mode.
TotalWeight(route, includeLayovers) ==
    LET RECURSIVE Sum(_)
        Sum(n) == IF n = 0 THEN 0
                  ELSE Sum(n - 1) + EdgeWeight(route.tripList[n], includeLayovers)
    IN Sum(Len(route.tripList))

RECURSIVE ShortestIndexLoopLastWins(_, _, _, _, _)
\* ShortestIndexLoop with <= for <: among equal weights the last one wins.
ShortestIndexLoopLastWins(potentialRouteList, i, minimumWeight, shortestRouteIndex, includeLayovers) ==
    IF i >= Len(potentialRouteList) THEN shortestRouteIndex
    ELSE LET totalCurrentWeight == TotalWeight(At(potentialRouteList, i), includeLayovers)
         IN IF totalCurrentWeight <= minimumWeight
            THEN ShortestIndexLoopLastWins(potentialRouteList, i + 1, totalCurrentWeight, i,
                                           includeLayovers)
            ELSE ShortestIndexLoopLastWins(potentialRouteList, i + 1, minimumWeight,
                                           shortestRouteIndex, includeLayovers)

RECURSIVE ShortestIndexLoop(_, _, _, _, _)
\* The loop that picks the lightest route; yields shortestRouteIndex.
ShortestIndexLoop(potentialRouteList, i, minimumWeight, shortestRouteIndex, includeLayovers) ==
    IF i >= Len(potentialRouteList) THEN shortestRouteIndex
    ELSE LET totalCurrentWeight == TotalWeight(At(potentialRouteList, i), includeLayovers)
         IN IF totalCurrentWeight < minimumWeight
            THEN ShortestIndexLoop(potentialRouteList, i + 1, totalCurrentWeight, i,
                                   includeLayovers)
            ELSE ShortestIndexLoop(potentialRouteList, i + 1, minimumWeight,
                                   shortestRouteIndex, includeLayovers)

\* The tail shared by get_shortest_route and get_shortest_route_from_time.
PickShortest(potentialRouteList, includeLayovers) ==
    IF Len(potentialRouteList) > 0
    THEN At(potentialRouteList,
            ShortestIndexLoop(potentialRouteList, 0, INF, -1, includeLayovers))
    ELSE InvalidRoute

\* The candidates of every enumerated pair, in order (each a get_route result).
Candidates(graph, departureID, destinationID, routeLookUpTable) ==
    LET pairs == StationPairs(graph, departureID, destinationID)
    IN [ n \in 1..Len(pairs) |->
           get_route(graph, pairs[n][1], pairs[n][2], routeLookUpTable) ]

get_shortest_route(graph, departureID, destinationID, routeLookUpTable, includeLayovers) ==
    LET candidates == Candidates(graph, departureID, destinationID, routeLookUpTable)
        Kept(c) == RouteIsValid(c.value)
    IN IF \E n \in 1..Len(candidates) : ~candidates[n].returns THEN NeverReturns
       ELSE LET kept == SelectSeq(candidates, Kept)
                potentialRouteList == [ n \in 1..Len(kept) |-> kept[n].value ]
            IN Returned(PickShortest(potentialRouteList, includeLayovers))

\* get_shortest_route_from_time without the twentyFourTime - 1200 alternative.
get_shortest_route_from_time_exact(graph, departureID, destinationID, twentyFourTime, withLayoverTable) ==
    LET candidates == Candidates(graph, departureID, destinationID, withLayoverTable)
        Kept(c) == /\ RouteIsValid(c.value)
                   /\ c.value.departingStation.departureTime = twentyFourTime
    IN IF \E n \in 1..Len(candidates) : ~candidates[n].returns THEN NeverReturns
       ELSE LET kept == SelectSeq(candidates, Kept)
                potentialRouteList == [ n \in 1..Len(kept) |-> kept[n].value ]
            IN Returned(PickShortest(potentialRouteList, TRUE))

get_shortest_route_from_time(graph, departureID, destinationID, twentyFourTime, withLayoverTable) ==
    LET candidates == Candidates(graph, departureID, destinationID, withLayoverTable)
        Kept(c) == /\ RouteIsValid(c.value)
                   /\ \/ c.value.departingStation.departureTime = twentyFourTime
                      \/ c.value.departingStation.departureTime = twentyFourTime - 1200
    IN IF \E n \in 1..Len(candidates) : ~candidates[n].returns THEN NeverReturns
       ELSE LET kept == SelectSeq(candidates, Kept)
                potentialRouteList == [ n \in 1..Len(kept) |-> kept[n].value ]
            IN Returned(PickShortest(potentialRouteList, TRUE))

RECURSIVE DirectLoopAnyLength(_, _)
\* DirectLoop without the test that the route has exactly one segment.
DirectLoopAnyLength(candidates, n) ==
    IF n > Len(candidates) THEN Returned(FALSE)
    ELSE IF ~candidates[n].returns THEN NeverReturns
    ELSE IF RouteIsValid(candidates[n].value) THEN Returned(TRUE)
    ELSE DirectLoopAnyLength(candidates, n + 1)

RECURSIVE DirectLoop(_, _)
\* The nested loops of direct_route_exists over the candidates from n on: the
\* first valid one-segment route returns true.
DirectLoop(candidates, n) ==
    IF n > Len(candidates) THEN Returned(FALSE)
    ELSE IF ~candidates[n].returns THEN NeverReturns
    ELSE IF RouteIsValid(candidates[n].value) /\ Len(candidates[n].value.tripList) = 1
    THEN Returned(TRUE)
    ELSE DirectLoop(candidates, n + 1)

direct_route_exists(graph, departureID, destinationID, routeLookUpTable) ==
    DirectLoop(Candidates(graph, departureID, destinationID, routeLookUpTable), 1)

(***************************************************************************)
(* The public operations, on the object's state.                           *)
(***************************************************************************)
GetShortestRoute(departureStationID, destinationStationID, includeLayovers) ==
    IF includeLayovers
    THEN get_shortest_route(departureGraphList, departureStationID, destinationStationID,
                            shortestRouteWithLayoverSequenceTable, TRUE)
    ELSE get_shortest_route(departureGraphList, departureStationID, destinationStationID,
                            shortestRouteWithoutLayoverSequenceTable, FALSE)

GetRouteFromTime(twentyFourTime, departureStationID, destinationStationID) ==
    get_shortest_route_from_time(departureGraphList, departureStationID,
                                 destinationStationID, twentyFourTime,
                                 shortestRouteWithLayoverSequenceTable)

\* GetVertexCount answering with the size of the time-expanded graph.
GetVertexCountOfDepartureGraph == Len(departureGraphList)

GetVertexCount == stationCount

\* The test iDAsZeroIndex < list->size(): the int is converted to the unsigned
\* size type, which makes every negative index larger than any size.
IndexBelowSize(iDAsZeroIndex, size) ==
    IF iDAsZeroIndex < 0 THEN FALSE ELSE iDAsZeroIndex < size

\* GetStationFromGraph with the station ID used as the index, not ID - 1.
GetStationFromGraphNoOffset(stationID) ==
    LET iDAsZeroIndex == stationID
    IN IF IndexBelowSize(iDAsZeroIndex, Len(stationsGraphList)) /\ iDAsZeroIndex >= 0
       THEN At(stationsGraphList, iDAsZeroIndex)
       ELSE Station(-1, <<>>)

GetStationFromGraph(stationID) ==
    LET iDAsZeroIndex == stationID - 1
    IN IF IndexBelowSize(iDAsZeroIndex, Len(stationsGraphList)) /\ iDAsZeroIndex >= 0
       THEN At(stationsGraphList, iDAsZeroIndex)
       ELSE Station(-1, <<>>)

GetStationFromArrivalGraph(stationID) ==
    LET iDAsZeroIndex == stationID - 1
    IN IF IndexBelowSize(iDAsZeroIndex, Len(stationArrivalsGraphList)) /\ iDAsZeroIndex >= 0
       THEN At(stationArrivalsGraphList, iDAsZeroIndex)
       ELSE Station(-1, <<>>)

\* PathExists answered by the direct-route search.
PathExistsDirectOnly(startStationID, targetStationID) ==
    direct_route_exists(departureGraphList, startStationID, targetStationID,
                        shortestRouteWithLayoverSequenceTable)

PathExists(startStationID, targetStationID) ==
    LET found == get_shortest_route(departureGraphList, startStationID, targetStationID,
                                    shortestRouteWithLayoverSequenceTable, TRUE)
    IN IF found.returns THEN Returned(RouteIsValid(found.value)) ELSE NeverReturns

DirectPathExists(startStationID, targetStationID) ==
    direct_route_exists(departureGraphList, startStationID, targetStationID,
                        shortestRouteWithLayoverSequenceTable)

(***************************************************************************)
(* The state machine: the tables are read, the object is constructed, and  *)
(* the presentation layer calls the public operations.                     *)
(***************************************************************************)
\* Station IDs a caller passes to the route queries (one past the last is no
\* station).
RouteArgs == 1..(NumStations + 1)

\* Station IDs a caller passes to the station lookups.
LookupArgs == (-1)..(NumStations + 1)

\* Clock times a caller passes to GetRouteFromTime.
QueryTimes == { 900, 920, 2100 }

NoCall == [ op |-> "none" ]

Init ==
    /\ tripData \in TripTables
    /\ stationData = StationTable
    /\ stationCount = NumStations
    /\ pc = "new"
    /\ stationsGraphList = <<>>
    /\ stationArrivalsGraphList = <<>>
    /\ departureGraphList = <<>>
    /\ shortestRouteWithLayoverSequenceTable = <<>>
    /\ shortestRouteWithoutLayoverSequenceTable = <<>>
    /\ call = NoCall
    /\ ret = NoCall

\* StationGraph::StationGraph
Construct ==
    /\ pc = "new"
    /\ pc' = "ready"
    /\ stationsGraphList' = build_stations_graph(tripData, stationCount)
    /\ stationArrivalsGraphList' = build_station_arrivals_graph(tripData, stationCount)
    /\ departureGraphList' = build_departures_graph(tripData, stationData)
    /\ shortestRouteWithLayoverSequenceTable' =
           floyd_warshal_shortest_paths(departureGraphList', TRUE)
    /\ shortestRouteWithoutLayoverSequenceTable' =
           floyd_warshal_shortest_paths(departureGraphList', FALSE)
    /\ UNCHANGED <<tripData, stationData, stationCount, call, ret>>

graphState == <<tripData, stationData, stationCount,
                stationsGraphList, stationArrivalsGraphList, departureGraphList,
                shortestRouteWithLayoverSequenceTable,
                shortestRouteWithoutLayoverSequenceTable>>

\* Where the caller is after a call: back with the result, or still inside a
\* call that never returns.
After(result) == IF result.returns THEN "returned" ELSE "running"

CallGetShortestRoute ==
    /\ pc = "ready"
    /\ \E a \in RouteArgs, b \in RouteArgs, includeLayovers \in BOOLEAN :
          /\ call' = [ op |-> "GetShortestRoute", a |-> a, b |-> b,
                       includeLayovers |-> includeLayovers ]
          /\ ret' = GetShortestRoute(a, b, includeLayovers)
    /\ pc' = After(ret')
    /\ UNCHANGED graphState

CallGetRouteFromTime ==
    /\ pc = "ready"
    /\ \E t \in QueryTimes, a \in RouteArgs, b \in RouteArgs :
          /\ call' = [ op |-> "GetRouteFromTime", t |-> t, a |-> a, b |-> b ]
          /\ ret' = GetRouteFromTime(t, a, b)
    /\ pc' = After(ret')
    /\ UNCHANGED graphState

CallPathExists ==
    /\ pc = "ready"
    /\ \E a \in RouteArgs, b \in RouteArgs :
          /\ call' = [ op |-> "PathExists", a |-> a, b |-> b ]
          /\ ret' = PathExists(a, b)
    /\ pc' = After(ret')
    /\ UNCHANGED graphState

CallDirectPathExists ==
    /\ pc = "ready"
    /\ \E a \in RouteArgs, b \in RouteArgs :
          /\ call' = [ op |-> "DirectPathExists", a |-> a, b |-> b ]
          /\ ret' = DirectPathExists(a, b)
    /\ pc' = After(ret')
    /\ UNCHANGED graphState

CallGetStationFromGraph ==
    /\ pc = "ready"
    /\ \E id \in LookupArgs :
          /\ call' = [ op |-> "GetStationFromGraph", id |-> id ]
          /\ ret' = Returned(GetStationFromGraph(id))
    /\ pc' = After(ret')
    /\ UNCHANGED graphState

CallGetStationFromArrivalGraph ==
    /\ pc = "ready"
    /\ \E id \in LookupArgs :
          /\ call' = [ op |-> "GetStationFromArrivalGraph", id |-> id ]
          /\ ret' = Returned(GetStationFromArrivalGraph(id))
    /\ pc' = After(ret')
    /\ UNCHANGED graphState

CallGetVertexCount ==
    /\ pc = "ready"
    /\ call' = [ op |-> "GetVertexCount" ]
    /\ ret' = Returned(GetVertexCount)
    /\ pc' = After(ret')
    /\ UNCHANGED graphState

\* The caller is done with the result and is ready for the next call.
NextCall ==
    /\ pc = "returned"
    /\ pc' = "ready"
    /\ call' = NoCall
    /\ ret' = NoCall
    /\ UNCHANGED graphState

Next ==
    \/ Construct
    \/ CallGetShortestRoute
    \/ CallGetRouteFromTime
    \/ CallPathExists
    \/ CallDirectPathExists
    \/ CallGetStationFromGraph
    \/ CallGetStationFromArrivalGraph
    \/ CallGetVertexCount
    \/ NextCall

Spec == Init /\ [][Next]_vars

(***************************************************************************)
(* Vocabulary of the properties.                                           *)
(***************************************************************************)
Built == pc # "new"

\* Number of trip records R and of vertices V = R + S.
R == Len(tripData)

V == Len(departureGraphList)

Records == 0..(R - 1)

Vertices == 0..(V - 1)

Origin(i) == Stoi(Cell(tripData, i, 0))

Destination(i) == Stoi(Cell(tripData, i, 1))

DepartureClock(i) == Stoi(Cell(tripData, i, 2))

ArrivalClock(i) == Stoi(Cell(tripData, i, 3))

\* The edges vertex n holds.
EdgesOf(n) == At(departureGraphList, n).validTrips

\* Vertex from holds an edge whose target key is to.
HasEdge(from, to) ==
    \E n \in 1..Len(EdgesOf(from)) : EdgesOf(from)[n].destinationKey = to

\* No two rows of the trip table are the same record.
NoDuplicateRows ==
    \A i \in Records, j \in Records : i # j => tripData[i + 1] # tripData[j + 1]

(***************************************************************************)
(* C1: after construction, for two distinct records A and B with           *)
(* origin(B) = destination(A), the vertex of A holds a connection edge to  *)
(* the vertex of B iff B's departure clock time is numerically greater     *)
(* than A's arrival clock time; and there is no connection edge between    *)
(* records where origin(B) differs from destination(A).  Stated for tables *)
(* without duplicate rows.                                                 *)
(***************************************************************************)
C1_ConnectionIffNumericallyLater ==
    (Built /\ NoDuplicateRows) =>
        \A A \in Records, B \in Records :
            A # B =>
                IF Origin(B) = Destination(A)
                THEN HasEdge(A, B) <=> DepartureClock(B) > ArrivalClock(A)
                ELSE ~HasEdge(A, B)

\* Target keys of the edges vertex n holds.
Successors(n) == { EdgesOf(n)[m].destinationKey : m \in 1..Len(EdgesOf(n)) }

RECURSIVE ReachFrom(_, _)
ReachFrom(seen, frontier) ==
    IF frontier = {} THEN seen
    ELSE LET new == (UNION { Successors(n) : n \in frontier }) \ seen
         IN ReachFrom(seen \cup new, new)

\* Vertex to is reached from vertex from along one or more edges of the
\* time-expanded graph.
Reachable(from, to) == to \in ReachFrom({}, {from})

\* Stations a trip of the static outgoing view leads to from station a.
StaticSuccessors(a) ==
    { At(stationsGraphList, a - 1).trips[m].destinationID :
        m \in 1..Len(At(stationsGraphList, a - 1).trips) }

RECURSIVE StaticReachFrom(_, _)
StaticReachFrom(seen, frontier) ==
    IF frontier = {} THEN seen
    ELSE LET new == (UNION { StaticSuccessors(a) : a \in frontier }) \ seen
         IN StaticReachFrom(seen \cup new, new)

ValidStationID(id) == 1 <= id /\ id <= stationCount

\* Station b is reached from station a by one or more trips of the static view.
StaticReachable(a, b) ==
    ValidStationID(a) /\ ValidStationID(b) /\ b \in StaticReachFrom({}, {a})

\* Some vertex of station b is reached from some vertex of station a.
StationsConnected(a, b) ==
    \E j \in Vertices, k \in Vertices :
        /\ At(departureGraphList, j).stationID = a
        /\ At(departureGraphList, k).stationID = b
        /\ Reachable(j, k)

C2_WitnessTimedOut ==
    /\ call.op = "PathExists" /\ ret.returns /\ ~ret.value
    /\ StaticReachable(call.a, call.b)

PairsOf(a, b) ==
    { p \in Vertices \X Vertices :
        /\ At(departureGraphList, p[1]).stationID = a
        /\ At(departureGraphList, p[2]).stationID = b }

\* Pair p is enumerated before pair q by the nested j, k loops.
PairBefore(p, q) == p[1] < q[1] \/ (p[1] = q[1] /\ p[2] < q[2])

\* The next-hop table of a weight mode.
TableOf(includeLayovers) ==
    IF includeLayovers THEN shortestRouteWithLayoverSequenceTable
    ELSE shortestRouteWithoutLayoverSequenceTable

\* The candidate reconstructed for a vertex pair.
CandidateOf(p, includeLayovers) ==
    get_route(departureGraphList, p[1], p[2], TableOf(includeLayovers))

\* The pairs whose candidate is a valid Route.
ValidPairs(a, b, includeLayovers) ==
    { p \in PairsOf(a, b) :
        /\ CandidateOf(p, includeLayovers).returns
        /\ RouteIsValid(CandidateOf(p, includeLayovers).value) }

RECURSIVE SegmentSum(_, _)
\* Ride times, plus layovers when they count, summed over a segment list.
SegmentSum(trips, includeLayovers) ==
    IF trips = <<>> THEN 0
    ELSE Head(trips).rideTimeToDestinationMins
         + (IF includeLayovers THEN Head(trips).layoverAtDestinationMins ELSE 0)
         + SegmentSum(Tail(trips), includeLayovers)

Cost(route, includeLayovers) == SegmentSum(route.tripList, includeLayovers)

\* result is the candidate of the earliest enumerated pair among those of
\* least cost in kept, or the invalid Route when kept is empty.
IsEarliestLightest(result, kept, tableMode, costMode) ==
    IF kept = {} THEN result = InvalidRoute
    ELSE \E p \in kept :
            /\ result = CandidateOf(p, tableMode).value
            /\ \A q \in kept :
                  /\ Cost(result, costMode) <= Cost(CandidateOf(q, tableMode).value, costMode)
                  /\ Cost(result, costMode) = Cost(CandidateOf(q, tableMode).value, costMode)
                        => ~PairBefore(q, p)

KeptAtTime(t, a, b) ==
    { p \in ValidPairs(a, b, TRUE) :
        \/ At(departureGraphList, p[1]).departureTime = t
        \/ At(departureGraphList, p[1]).departureTime = t - 1200 }

ScenarioA ==
    << << IdStr(1), IdStr(2), <<8,0,0>>, <<9,0,0>> >>,
       << IdStr(2), IdStr(3), <<9,2,0>>, <<1,0,0,0>> >> >>

(***************************************************************************)
(* C6: edge costs are elapsed minutes; on Scenario A                       *)
(* GetShortestRoute(1, 3, true) returns a 2-segment route of total weight  *)
(* 120 (60 ride + 20 layover + 40 ride) and GetShortestRoute(1, 3, false)  *)
(* the same path with total 100.                                           *)
(***************************************************************************)
C6_ScenarioATotalsAreMinutes ==
    (tripData = ScenarioA /\ call.op = "GetShortestRoute"
        /\ call.a = 1 /\ call.b = 3 /\ ret.returns) =>
        /\ Len(ret.value.tripList) = 2
        /\ Cost(ret.value, call.includeLayovers) = IF call.includeLayovers THEN 120 ELSE 100

(***************************************************************************)
(* C7: GetStationFromGraph(id) and GetStationFromArrivalGraph(id) return,  *)
(* for every id, a Station: of ID -1 (StationIsValid false) when id < 1 or *)
(* id > stationCount, and of ID id when 1 <= id <= stationCount.           *)
(***************************************************************************)
C7_StationLookup ==
    (call.op \in { "GetStationFromGraph", "GetStationFromArrivalGraph" }) =>
        /\ ret.returns
        /\ IF 1 <= call.id /\ call.id <= stationCount
           THEN ret.value.stationID = call.id /\ StationIsValid(ret.value)
           ELSE ret.value.stationID = -1 /\ ~StationIsValid(ret.value)

\* A lookup one past the last station came back as the invalid Station.
C7_Witness ==
    /\ call.op = "GetStationFromGraph"
    /\ call.id = stationCount + 1
    /\ ret.returns /\ ret.value = Station(-1, <<>>)
    /\ R > 0

\* Every connection edge a route takes leads to a record that departs,
\* numerically, after the record before it arrives.
RECURSIVE ConnectionsFeasible(_, _)
ConnectionsFeasible(current, trips) ==
    IF trips = <<>> THEN TRUE
    ELSE LET target == Head(trips).destinationKey
         IN /\ target \in Records =>
                  current \in Records /\ DepartureClock(target) > ArrivalClock(current)
            /\ ConnectionsFeasible(target, Tail(trips))

\* The two next-hop tables have the infinite sentinel at the same entries.
SameReachabilityInBothTables ==
    Built =>
        \A i \in Vertices, j \in Vertices :
            shortestRouteWithLayoverSequenceTable[i][j] = INF
                <=> shortestRouteWithoutLayoverSequenceTable[i][j] = INF

\* For every station pair the two modes, when both calls return, agree on
\* whether the shortest route is valid.
SameValidityInBothModes ==
    pc = "ready" =>
        \A a \in RouteArgs, b \in RouteArgs :
            (GetShortestRoute(a, b, TRUE).returns /\ GetShortestRoute(a, b, FALSE).returns) =>
                (RouteIsValid(GetShortestRoute(a, b, TRUE).value)
                    <=> RouteIsValid(GetShortestRoute(a, b, FALSE).value))

\* A route returned in ride-time-only mode takes only feasible connections.
RideOnlyRoutesFeasible ==
    (call.op = "GetShortestRoute" /\ ~call.includeLayovers /\ ret.returns
        /\ RouteIsValid(ret.value)) =>
        ConnectionsFeasible(ret.value.departingStation.lookUpKey, ret.value.tripList)

(***************************************************************************)
(* C9: the two weight modes have the same reachability: the with-layovers  *)
(* next-hop entry is the infinite sentinel iff the without-layovers entry  *)
(* is, GetShortestRoute(a, b, true) is valid iff GetShortestRoute(a, b,    *)
(* false) is, and every route returned in ride-time-only mode uses only    *)
(* chronologically feasible connection edges.                              *)
(***************************************************************************)
C9_ModesAgreeAndRoutesFeasible ==
    /\ SameReachabilityInBothTables
    /\ SameValidityInBothModes
    /\ RideOnlyRoutesFeasible

\* The weights, in a mode, of the edges vertex from holds to vertex to.
WeightsOfEdges(from, to, includeLayovers) ==
    { EdgeWeight(EdgesOf(from)[n], includeLayovers) :
        n \in { m \in 1..Len(EdgesOf(from)) : EdgesOf(from)[m].destinationKey = to } }

RECURSIVE NextHopWalk(_, _, _, _)
\* Follows next[current][to] until it arrives at to, for at most fuel steps:
\* whether every step was an edge and the walk arrived, the number of steps
\* and the sum of the weights of the edges taken.
NextHopWalk(current, to, includeLayovers, fuel) ==
    LET next == TableOf(includeLayovers)[current][to]
    IN IF fuel = 0 \/ next \notin Vertices \/ ~HasEdge(current, next)
       THEN [ arrives |-> FALSE, steps |-> 0, weights |-> {0} ]
       ELSE IF next = to
       THEN [ arrives |-> TRUE, steps |-> 1,
              weights |-> WeightsOfEdges(current, next, includeLayovers) ]
       ELSE LET rest == NextHopWalk(next, to, includeLayovers, fuel - 1)
            IN [ arrives |-> rest.arrives, steps |-> rest.steps + 1,
                 weights |-> { w + x : w \in WeightsOfEdges(current, next, includeLayovers),
                                       x \in rest.weights } ]

(***************************************************************************)
(* C10: for each weight mode and every ordered vertex pair (i, j) joined   *)
(* by a directed path of the time-expanded graph, following                *)
(* next[current][j] from i arrives at j within V steps, every step is an   *)
(* edge of the graph, and the mode's edge weights along the walk sum to    *)
(* the distance the Floyd-Warshall pass computed for (i, j).               *)
(***************************************************************************)
C10_NextHopWalkMatchesDistance ==
    pc = "ready" =>
        \A includeLayovers \in BOOLEAN :
            LET distance == FloydWarshal(departureGraphList, includeLayovers).distance
            IN \A i \in Vertices, j \in Vertices :
                  Reachable(i, j) =>
                      LET walk == NextHopWalk(i, j, includeLayovers, V)
                      IN /\ walk.arrives
                         /\ walk.steps <= V
                         /\ walk.weights = { distance[i][j] }

\* A constructed graph in which some vertex is two or more edges away from
\* another, so that the walk follows a next hop the triple loop wrote.
C10_Witness ==
    /\ pc = "ready"
    /\ \E i \in Vertices, j \in Vertices :
          /\ Reachable(i, j)
          /\ ~HasEdge(i, j)
          /\ NextHopWalk(i, j, TRUE, V).steps >= 2

\* No call runs forever: pc is "running" only inside a call whose loop does
\* not exit.
EveryCallReturns == pc # "running"

\* The reconstruction loop exits for every vertex pair and either table.  The
\* next hop is a function of the current vertex, so a walk that exits has
\* visited no vertex twice.
GetRouteAlwaysReturns ==
    pc = "ready" =>
        \A includeLayovers \in BOOLEAN, from \in Vertices, to \in Vertices :
            get_route(departureGraphList, from, to, TableOf(includeLayovers)).returns

(***************************************************************************)
(* C11: for every vertex pair (from, to), from = to and unreachable pairs  *)
(* included, and either next-hop table, the loop of get_route terminates   *)
(* without visiting a vertex twice; hence every station-level query        *)
(* terminates on every timetable.                                          *)
(***************************************************************************)
C11_ReconstructionTerminates ==
    /\ GetRouteAlwaysReturns
    /\ EveryCallReturns

(***************************************************************************)
(* Construction from a station table whose rows are in any order.          *)
(***************************************************************************)
\* The station tables with the IDs 1..NumStations, one per row, in any order.
StationTables ==
    { [ i \in 1..NumStations |-> << IdStr(order[i]) >> ] :
        order \in { f \in [ 1..NumStations -> 1..NumStations ] :
                      \A i \in 1..NumStations, j \in 1..NumStations :
                          f[i] = f[j] => i = j } }

InitAnyStationOrder ==
    /\ tripData \in TripTables
    /\ stationData \in StationTables
    /\ stationCount = NumStations
    /\ pc = "new"
    /\ stationsGraphList = <<>>
    /\ stationArrivalsGraphList = <<>>
    /\ departureGraphList = <<>>
    /\ shortestRouteWithLayoverSequenceTable = <<>>
    /\ shortestRouteWithoutLayoverSequenceTable = <<>>
    /\ call = NoCall
    /\ ret = NoCall

NextConstruct == Construct

SpecAnyStationOrder == InitAnyStationOrder /\ [][NextConstruct]_vars

\* Number of station rows S and the station ID of row i.
S == Len(stationData)

RowStation(i) == Stoi(Cell(stationData, i, 0))

(***************************************************************************)
(* C12: after construction from R trip records and S station rows the      *)
(* time-expanded graph has R + S vertices and vertex n has lookup key n;   *)
(* vertex i < R carries record i's origin station and departure time and   *)
(* has at least one outgoing edge; vertex R + i carries row i's station    *)
(* ID, departure time 0 and has no outgoing edge; and the target key of    *)
(* every edge lies in 0..R+S-1.                                            *)
(***************************************************************************)
C12_VertexLayout ==
    Built =>
        /\ V = R + S
        /\ \A n \in Vertices : At(departureGraphList, n).lookUpKey = n
        /\ \A i \in Records :
              /\ At(departureGraphList, i).stationID = Origin(i)
              /\ At(departureGraphList, i).departureTime = DepartureClock(i)
              /\ Len(EdgesOf(i)) >= 1
        /\ \A i \in 0..(S - 1) :
              /\ At(departureGraphList, R + i).stationID = RowStation(i)
              /\ At(departureGraphList, R + i).departureTime = 0
              /\ IsFinalDestination(At(departureGraphList, R + i))
        /\ \A n \in Vertices :
              \A m \in 1..Len(EdgesOf(n)) : EdgesOf(n)[m].destinationKey \in Vertices

\* A graph built from a full trip table and a station table out of order, in
\* which some trip vertex holds a connection edge besides its ride edge.
C12_Witness ==
    /\ Built
    /\ R = MaxTrips
    /\ stationData # StationTable
    /\ \E i \in Records : Len(EdgesOf(i)) >= 2

\* Vertex i holds a ride edge to a sink of record i's destination station:
\* layover 0, weight the ride time as the builder computes it.
HoldsRideEdgeToDestinationSink(i) ==
    \E m \in 1..Len(EdgesOf(i)) :
        LET edge == EdgesOf(i)[m]
        IN /\ edge.layoverAtDestinationMins = 0
           /\ edge.rideTimeToDestinationMins = ArrivalClock(i) - DepartureClock(i)
           /\ edge.tripWeight = ArrivalClock(i) - DepartureClock(i)
           /\ edge.destinationKey \in R..(V - 1)
           /\ At(departureGraphList, edge.destinationKey).stationID = Destination(i)

(***************************************************************************)
(* C13: for every trip record i the vertex of record i holds a ride edge   *)
(* with layover 0 and weight record i's ride time whose target is a sink   *)
(* vertex of record i's destination station, whatever the order of the     *)
(* station table's rows.                                                   *)
(***************************************************************************)
C13_RideEdgeReachesDestinationSink ==
    Built => \A i \in Records : HoldsRideEdgeToDestinationSink(i)

\* The same for the station table whose row i holds the ID i + 1.
RideEdgeReachesDestinationSinkInOrder ==
    (Built /\ stationData = StationTable) =>
        \A i \in Records : HoldsRideEdgeToDestinationSink(i)

(***************************************************************************)
(* Construction from a trip table with repeated rows.                      *)
(***************************************************************************)
\* Most rows a table takes from the rows it already has.
MaxRepeats == 2

\* The tables made of one to MaxTrips rows followed by one to MaxRepeats
\* copies of rows already there.
TablesWithRepeats ==
    UNION { UNION { { base \o [ n \in 1..copies |-> base[from[n]] ] :
                        from \in [ 1..copies -> 1..Len(base) ] } :
                    copies \in 1..MaxRepeats } :
            base \in TripTables \ { <<>> } }

InitDuplicateRows ==
    /\ tripData \in TablesWithRepeats
    /\ stationData = StationTable
    /\ stationCount = NumStations
    /\ pc = "new"
    /\ stationsGraphList = <<>>
    /\ stationArrivalsGraphList = <<>>
    /\ departureGraphList = <<>>
    /\ shortestRouteWithLayoverSequenceTable = <<>>
    /\ shortestRouteWithoutLayoverSequenceTable = <<>>
    /\ call = NoCall
    /\ ret = NoCall

SpecDuplicateRows == InitDuplicateRows /\ [][NextConstruct]_vars

\* Rows i and j of the trip table hold the identical tuple.
SameRow(i, j) == tripData[i + 1] = tripData[j + 1]

\* Number of rows that hold the tuple of row i.
Multiplicity(i) == Cardinality({ j \in Records : SameRow(i, j) })

\* Number of times an edge stands in the edge list of vertex n.
Occurrences(n, edge) == Cardinality({ m \in 1..Len(EdgesOf(n)) : EdgesOf(n)[m] = edge })

\* The edges of vertex n, as a set.
EdgeSet(n) == { EdgesOf(n)[m] : m \in 1..Len(EdgesOf(n)) }

\* Every row has a vertex of its own, and rows with the identical tuple have
\* the same edge list.
DuplicatesShareEdgeList ==
    /\ V = R + S
    /\ \A i \in Records : At(departureGraphList, i).lookUpKey = i
    /\ \A i \in Records, j \in Records : SameRow(i, j) => EdgesOf(i) = EdgesOf(j)

\* An edge to a record's vertex leads to the highest-indexed row with that
\* record's tuple; the rows below it have no incoming edge.
EdgesEnterHighestDuplicate ==
    \A n \in Vertices, k \in Records :
        HasEdge(n, k) => \A j \in Records : SameRow(j, k) => j <= k

(***************************************************************************)
(* C14: with repeated rows every row has its own vertex, rows with the     *)
(* identical tuple have the same edge list, and connection edges into a    *)
(* repeated departure enter only the highest-indexed of its rows, so the   *)
(* rows below it have no incoming edge.  Every edge is pushed once per row *)
(* with the tuple of the vertex's record: a ride edge stands in the list   *)
(* that many times, and an edge to a record that many times for each row   *)
(* with the target record's tuple, all of which lead to the same vertex.   *)
(***************************************************************************)
C14_DuplicateRows ==
    Built =>
        /\ DuplicatesShareEdgeList
        /\ EdgesEnterHighestDuplicate
        /\ \A i \in Records :
              \A edge \in EdgeSet(i) :
                  Occurrences(i, edge) =
                      Multiplicity(i) * (IF edge.destinationKey \in Records
                                         THEN Multiplicity(edge.destinationKey)
                                         ELSE 1)

\* A table in which a repeated row has a connection edge to another repeated
\* row, entered at the higher of its two vertices.
C14_Witness ==
    /\ Built
    /\ \E i \in Records, k \in Records :
          /\ Multiplicity(i) = 2
          /\ Multiplicity(k) = 2
          /\ HasEdge(i, k)
          /\ \E j \in Records : j < k /\ SameRow(j, k)

(***************************************************************************)
(* C15: GetVertexCount() returns the stationsCount argument of the         *)
(* constructor, whatever the number of trip records; it is not the number  *)
(* V = R + S of vertices of the time-expanded graph, from which it differs *)
(* by R.                                                                   *)
(***************************************************************************)
C15_VertexCountIsStationCount ==
    call.op = "GetVertexCount" =>
        /\ ret.returns
        /\ ret.value = stationCount
        /\ ret.value = V - R
        /\ R > 0 => ret.value # V

\* GetVertexCount answered for a graph built from a full trip table, whose
\* time-expanded graph has more vertices than the answer.
C15_Witness ==
    /\ call.op = "GetVertexCount"
    /\ ret.returns
    /\ R = MaxTrips
    /\ ret.value < V

====
